---------------------------- MODULE Spec2Model ----------------------------
(***************************************************************************)
(* A model of the "crypty" virus detector (find_sig.cpp): the buffered     *)
(* sliding-window matcher containsSignatureBuffered, the classifier        *)
(* isELFFile, the ThreadPool and main with its scan units.                 *)
(*                                                                         *)
(* Bytes are naturals in 0..255, a file's content and a signature are      *)
(* sequences of bytes.  C++ offsets are 0-based, TLA+ sequences 1-based:   *)
(* byte i of a C++ buffer is element i + 1 of the sequence modelling it.   *)
(***************************************************************************)
EXTENDS Naturals, Integers, Sequences, FiniteSets, TLC

(***************************************************************************)
(* Bounds.                                                                 *)
(*                                                                         *)
(* MIN_BUFFER_SIZE and EXTRA_BUFFER are 4096 and 1024 in find_sig.cpp      *)
(* (lines 46-47).  They are scaled down here, keeping what the code relies *)
(* on (EXTRA_BUFFER >= 1, so that a chunk is longer than the carry-over),  *)
(* so that files of a few chunks, and signatures on both sides of the      *)
(* std::max of line 145, are inside the bounds.                            *)
(***************************************************************************)
MIN_BUFFER_SIZE == 3
EXTRA_BUFFER == 1
MaxSigLen == 3
MaxFileLen == 7

Max(a, b) == IF a >= b THEN a ELSE b
Min(a, b) == IF a <= b THEN a ELSE b

\* All sequences over S of length lo..hi.
SeqsOf(S, lo, hi) == UNION {[1..n -> S] : n \in lo..hi}

\* n zero bytes: what std::vector<uint8_t>(n) holds after construction.
Zeros(n) == [i \in 1..n |-> 0]

(***************************************************************************)
(* Files.  A file is its bytes plus how the file system treats it:         *)
(*   "ok"        every open and read succeeds                              *)
(*   "noopen"    it cannot be opened                                       *)
(*   "readerr"   it opens, the matcher's first read fails: it transfers no *)
(*               byte and sets badbit                                      *)
(***************************************************************************)
File(bytes, io) == [bytes |-> bytes, io |-> io]

\* std::ifstream file(path): whether the stream is good after construction.
OpenSucceeds(f) == f.io # "noopen"

(***************************************************************************)
(* std::search(first, last, s_first, s_last) over buf[0 .. total): the     *)
(* offset of the first occurrence of sig, or total (the end iterator) when *)
(* there is none.  An empty needle is found at offset 0.                   *)
(***************************************************************************)
MatchesAt(buf, sig, i) == \A j \in 1..Len(sig) : buf[i + j] = sig[j]

RECURSIVE SearchFrom(_, _, _, _)
SearchFrom(buf, total, sig, i) ==
    IF i + Len(sig) > total THEN total
    ELSE IF MatchesAt(buf, sig, i) THEN i
    ELSE SearchFrom(buf, total, sig, i + 1)

StdSearch(buf, total, sig) == SearchFrom(buf, total, sig, 0)

(***************************************************************************)
(* containsSignatureBuffered (find_sig.cpp:137-172), as a state record     *)
(* stepped one region of the function at a time:                           *)
(*   pc         "entry" (before line 138), "loop" (at the while test of    *)
(*              line 150), "ret" (returned)                                *)
(*   buffer     the vector of line 147, buffer_size + OVERLAP bytes        *)
(*   bytesRead  the variable of line 148                                   *)
(*   pos        the stream's read offset into the file                     *)
(*   good       the stream's truth value (!fail())                         *)
(*   reads      number of file.read calls made (ghost)                     *)
(*   total      totalBytes of the last iteration (ghost, 0 before)         *)
(*   ret        the returned value once pc = "ret"                         *)
(***************************************************************************)
OverlapOf(sig) == Len(sig) - 1

\* line 145
BufferSizeOf(sig) == Max(MIN_BUFFER_SIZE, Len(sig) + EXTRA_BUFFER)

\* Mutant: the buffer has no room for the carry-over.
BufferLenOf_NoOverlap(sig) == BufferSizeOf(sig)

\* line 147: the length of the buffer.
BufferLenOf(sig) == BufferSizeOf(sig) + OverlapOf(sig)

MatcherEntry ==
    [pc |-> "entry", buffer |-> <<>>, bytesRead |-> 0, pos |-> 0,
     good |-> FALSE, reads |-> 0, total |-> 0, ret |-> FALSE]

\* lines 138-148: the empty-signature and open checks, the buffer.
MatcherOpen(st, f, sig) ==
    IF Len(sig) = 0 THEN [st EXCEPT !.pc = "ret", !.ret = FALSE]
    ELSE IF ~OpenSucceeds(f) THEN [st EXCEPT !.pc = "ret", !.ret = FALSE]
    ELSE [st EXCEPT !.pc = "loop", !.good = TRUE,
                    !.buffer = Zeros(BufferLenOf(sig)),
                    !.bytesRead = 0]

\* lines 151-155: the carry-over copy; std::copy of [from, from + n) to the
\* front of the buffer, element by element in increasing order.
RECURSIVE CopyToFront(_, _, _, _)
CopyToFront(buf, from, n, k) ==
    IF k >= n THEN buf
    ELSE CopyToFront([buf EXCEPT ![k + 1] = buf[from + k + 1]], from, n, k + 1)

\* Mutant: the carry-over is copied from one byte before the buffer's tail.
CarryOver_OffByOne(buf, bytesRead, overlap) ==
    IF bytesRead >= overlap /\ overlap > 0
    THEN CopyToFront(buf, Len(buf) - overlap - 1, overlap, 0)
    ELSE buf

\* Mutant: the carry-over copy is left out.
CarryOver_NoCopy(buf, bytesRead, overlap) == buf

CarryOver(buf, bytesRead, overlap) ==
    IF bytesRead >= overlap
    THEN CopyToFront(buf, Len(buf) - overlap, overlap, 0)
    ELSE IF bytesRead > 0
    THEN CopyToFront(buf, bytesRead - overlap, overlap, 0)
    ELSE buf

\* file.read(buffer.data() + OVERLAP, buffer_size) and gcount(): the number
\* of bytes transferred.  A stream that is not good transfers nothing.
ReadCount(st, f, n) ==
    IF ~st.good \/ (f.io = "readerr" /\ st.reads = 0) THEN 0
    ELSE Min(n, Len(f.bytes) - st.pos)

\* The buffer after the read: got bytes of the file from offset pos are
\* stored at buffer offset at.
StoreRead(buf, at, bytes, pos, got) ==
    [i \in 1..Len(buf) |->
        IF i > at /\ i <= at + got THEN bytes[pos + (i - at)] ELSE buf[i]]

\* Mutant: a match does not end the loop; the loop ends at the short read.
AfterSearch_NoEarlyReturn(after, found, short) ==
    IF short THEN [after EXCEPT !.pc = "ret", !.ret = found]
    ELSE after

\* lines 164-168: return true on a match; leave the loop, and return false
\* at line 171, after a short read; otherwise go round the loop.
AfterSearch(after, found, short) ==
    IF found THEN [after EXCEPT !.pc = "ret", !.ret = TRUE]
    ELSE IF short THEN [after EXCEPT !.pc = "ret", !.ret = FALSE]
    ELSE after

\* lines 150-171: the loop test and one iteration.
MatcherIterate(st, f, sig) ==
    IF ~st.good THEN [st EXCEPT !.pc = "ret", !.ret = FALSE]
    ELSE
      LET overlap == OverlapOf(sig)
          size    == BufferSizeOf(sig)
          carried == CarryOver(st.buffer, st.bytesRead, overlap)
          got     == ReadCount(st, f, size)
          buf     == StoreRead(carried, overlap, f.bytes, st.pos, got)
          total   == got + overlap
          it      == StdSearch(buf, total, sig)
          after   == [st EXCEPT !.buffer = buf, !.bytesRead = got,
                                !.pos = st.pos + got,
                                \* a short read sets failbit (with eofbit
                                \* or badbit)
                                !.good = (got = size),
                                !.reads = st.reads + 1,
                                !.total = total]
      IN  AfterSearch(after, it # total, got < size)

MatcherStep(st, f, sig) ==
    IF st.pc = "entry" THEN MatcherOpen(st, f, sig)
    ELSE MatcherIterate(st, f, sig)

RECURSIVE MatcherRun(_, _, _)
MatcherRun(st, f, sig) ==
    IF st.pc = "ret" THEN st
    ELSE MatcherRun(MatcherStep(st, f, sig), f, sig)

\* The value containsSignatureBuffered(path, signature) returns.
containsSignatureBuffered(f, sig) ==
    MatcherRun(MatcherEntry, f, sig).ret

(***************************************************************************)
(* isELFFile (find_sig.cpp:113-123).  header is char[4]: a byte read from  *)
(* the file is compared as a char, which the build makes signed.           *)
(***************************************************************************)
CharOf(b) == IF b >= 128 THEN b - 256 ELSE b

\* file.read(header, 4); file.gcount()
HeaderCount(f) == Min(4, Len(f.bytes))

\* Mutant: only the first three bytes of the magic are compared.
isELFFile_ThreeBytes(f) ==
    IF ~OpenSucceeds(f) THEN FALSE
    ELSE IF HeaderCount(f) < 4 THEN FALSE
    ELSE /\ CharOf(f.bytes[1]) = 127
         /\ CharOf(f.bytes[2]) = 69
         /\ CharOf(f.bytes[3]) = 76

isELFFile(f) ==
    IF ~OpenSucceeds(f) THEN FALSE
    ELSE IF HeaderCount(f) < 4 THEN FALSE
    ELSE /\ CharOf(f.bytes[1]) = 127    \* 0x7F
         /\ CharOf(f.bytes[2]) = 69     \* 'E'
         /\ CharOf(f.bytes[3]) = 76     \* 'L'
         /\ CharOf(f.bytes[4]) = 70     \* 'F'

(***************************************************************************)
(* State.                                                                  *)
(***************************************************************************)
VARIABLES
    mfile,      \* matcher run: the file scanned
    msig,       \* matcher run: the signature
    ms,         \* matcher run: the state record of containsSignatureBuffered
    cfile,      \* classifier run: the file
    cpc,        \* classifier run: "call" or "ret"
    cret,       \* classifier run: the value isELFFile returned
    mpc,        \* main: position of the main thread
    exitStatus, \* main: the returned status, -1 while running
    fatal,      \* main: which fatal error ended the run ("none" if none)
    signature,  \* main: the signature vector
    files,      \* main: the vector of files the traversal found
    submitted,  \* main: number of units submitted so far
    poolUp,     \* whether the ThreadPool has been constructed
    nworkers,   \* ThreadPool::workers.size()
    tasks,      \* ThreadPool::tasks, a queue of units (indices into files)
    qmutex,     \* ThreadPool::queueMutex: 0 when free, else the worker holding it
    waiters,    \* workers blocked in condition.wait
    stop,       \* ThreadPool::stop
    wpc,        \* position of each worker thread
    wtask,      \* the unit each worker holds (0: none)
    omutex,     \* output_mutex: 0 when free, else the worker holding it
    joined,     \* number of workers the destructor has joined
    ulog        \* per unit: what happened to it (ghost)

matcherVars == <<mfile, msig, ms>>
classifierVars == <<cfile, cpc, cret>>
mainVars == <<mpc, exitStatus, fatal, signature, files, submitted>>
poolVars == <<poolUp, nworkers, tasks, qmutex, waiters, stop, wpc, wtask, joined>>
unitVars == <<omutex, ulog>>
progVars == <<mainVars, poolVars, unitVars>>
otherRuns == <<matcherVars, classifierVars>>
vars == <<matcherVars, classifierVars, progVars>>

\* The variables of a run that a specification does not use.
MatcherIdle == mfile = File(<<>>, "ok") /\ msig = <<>> /\ ms = MatcherEntry
ClassifierIdle == cfile = File(<<>>, "ok") /\ cpc = "call" /\ cret = FALSE
ProgramIdle ==
    /\ mpc = "args" /\ exitStatus = -1 /\ fatal = "none"
    /\ signature = <<>> /\ files = <<>> /\ submitted = 0
    /\ poolUp = FALSE /\ nworkers = 0 /\ tasks = <<>> /\ qmutex = 0
    /\ waiters = {} /\ stop = FALSE /\ wpc = <<>> /\ wtask = <<>>
    /\ omutex = 0 /\ joined = 0 /\ ulog = <<>>

(***************************************************************************)
(* SpecMatcher: one call of containsSignatureBuffered on every signature   *)
(* and file within the bounds, stepped through its loop.                   *)
(***************************************************************************)
MatcherBytes == {0, 1}
MatcherIO == {"ok", "noopen", "readerr"}

MatcherInit ==
    /\ msig \in SeqsOf(MatcherBytes, 0, MaxSigLen)
    /\ mfile \in {File(b, io) : b \in SeqsOf(MatcherBytes, 0, MaxFileLen),
                                io \in MatcherIO}
    /\ ms = MatcherEntry
    /\ ClassifierIdle
    /\ ProgramIdle

M_Open ==
    /\ ms.pc = "entry"
    /\ ms' = MatcherOpen(ms, mfile, msig)
    /\ UNCHANGED <<mfile, msig, classifierVars, progVars>>

M_Iterate ==
    /\ ms.pc = "loop"
    /\ ms' = MatcherIterate(ms, mfile, msig)
    /\ UNCHANGED <<mfile, msig, classifierVars, progVars>>

MatcherNext == M_Open \/ M_Iterate

SpecMatcher == MatcherInit /\ [][MatcherNext]_vars

(***************************************************************************)
(* SpecClassifier: one call of isELFFile on every file within the bounds.  *)
(***************************************************************************)
MaxHeaderLen == 5
\* 0x7F 'E' 'L' 'F', the 0x7E of the malformed_elf test, and 0xFF
ClassifierBytes == {127, 69, 76, 70, 126, 255}
ClassifierIO == {"ok", "noopen"}

ClassifierInit ==
    /\ cfile \in {File(b, io) : b \in SeqsOf(ClassifierBytes, 0, MaxHeaderLen),
                                io \in ClassifierIO}
    /\ cpc = "call"
    /\ cret = FALSE
    /\ MatcherIdle
    /\ ProgramIdle

C_Call ==
    /\ cpc = "call"
    /\ cret' = isELFFile(cfile)
    /\ cpc' = "ret"
    /\ UNCHANGED <<cfile, matcherVars, progVars>>

ClassifierNext == C_Call

SpecClassifier == ClassifierInit /\ [][ClassifierNext]_vars

(***************************************************************************)
(* Spec: the program.  main (find_sig.cpp:176-232) loads the signature,    *)
(* walks the tree, builds the ThreadPool, submits one scan unit per file,  *)
(* writes the status line and returns, which runs ~ThreadPool.  The        *)
(* workers (workerThread, lines 87-109) run the units (the lambda of lines *)
(* 212-225).                                                               *)
(***************************************************************************)
MaxFiles == 2
MaxHW == 2

\* The signature file's content in the sample runs ("cry"), and files like
\* those of generate_test_cases.
SampleSignature == <<99, 114, 121>>
SampleFiles ==
    { File(<<127, 69, 76, 70, 65, 65>> \o SampleSignature, "ok"), \* infected
      File(<<127, 69, 76, 70, 99, 114>>, "ok"),         \* partial_signature
      File(SampleSignature, "ok") }                     \* signature_in_non_elf

\* What the file system does to a file between the classifier's read of it
\* and the matcher's: nothing, or it makes it unreadable (permission revoked
\* mid-run), or it makes the matcher's read fail.
MidRunIO == {"ok", "noopen", "readerr"}

Units == 1..Len(files)
Workers == 1..nworkers

NewUnitLog ==
    [started |-> 0, finished |-> 0, elf |-> "none", matcher |-> "none",
     iofail |-> FALSE, infected |-> 0, errors |-> 0]

Init ==
    /\ ProgramIdle
    /\ MatcherIdle
    /\ ClassifierIdle

\* A run that ends in main before the pool exists: return 1.
FatalExit(why) ==
    /\ fatal' = why
    /\ exitStatus' = 1
    /\ mpc' = "done"

\* lines 177-180: the argument count.
MainArgs ==
    /\ mpc = "args"
    /\ \E argc \in {2, 3} :
          IF argc # 3
          THEN FatalExit("usage")
          ELSE mpc' = "load" /\ UNCHANGED <<fatal, exitStatus>>
    /\ UNCHANGED <<signature, files, submitted, poolVars, unitVars>>
    /\ UNCHANGED otherRuns

\* What load_signature(sig_file) can do: throw (not a regular file, cannot
\* be opened), or return the file's bytes.
LoadOutcomes == {"throws", <<>>, SampleSignature}

\* Mutant: the empty check of line 188 is left out.
SignatureRejected_NoEmptyCheck(r) == r = "throws"

\* Line 188: an empty signature is thrown as an error.
SignatureRejected(r) == r = "throws" \/ Len(r) = 0

\* lines 186-195: load the signature; an empty one is an error.
MainLoad ==
    /\ mpc = "load"
    /\ \E r \in LoadOutcomes :
          IF SignatureRejected(r)
          THEN FatalExit("signature") /\ UNCHANGED signature
          ELSE /\ signature' = r
               /\ mpc' = "traverse"
               /\ UNCHANGED <<fatal, exitStatus>>
    /\ UNCHANGED <<files, submitted, poolVars, unitVars>>
    /\ UNCHANGED otherRuns

\* lines 197-206: the recursive directory walk, which may throw.
MainTraverse ==
    /\ mpc = "traverse"
    /\ \/ FatalExit("traversal") /\ UNCHANGED <<files, ulog>>
       \/ \E fs \in SeqsOf(SampleFiles, 0, MaxFiles) :
             /\ files' = fs
             /\ ulog' = [u \in 1..Len(fs) |-> NewUnitLog]
             /\ mpc' = "mkpool"
             /\ UNCHANGED <<fatal, exitStatus>>
    /\ UNCHANGED <<signature, submitted, poolVars, omutex>>
    /\ UNCHANGED otherRuns

\* std::thread::hardware_concurrency(): the number of hardware threads, or
\* 0 when it cannot be determined.
HardwareConcurrency == 0..MaxHW

\* line 209 with the constructor (lines 66-70): threadCount workers are
\* started.
ThreadCount(hw) == hw

MainMakePool ==
    /\ mpc = "mkpool"
    /\ \E hw \in HardwareConcurrency :
          /\ nworkers' = ThreadCount(hw)
          /\ wpc' = [w \in 1..ThreadCount(hw) |-> "lock"]
          /\ wtask' = [w \in 1..ThreadCount(hw) |-> 0]
    /\ poolUp' = TRUE
    /\ stop' = FALSE
    /\ mpc' = "submit"
    /\ UNCHANGED <<exitStatus, fatal, signature, files, submitted, tasks,
                   qmutex, waiters, joined, unitVars>>
    /\ UNCHANGED otherRuns

\* Mutant: submit puts the unit at the front of the queue.
MainSubmit_PushFront ==
    /\ mpc = "submit"
    /\ submitted < Len(files)
    /\ qmutex = 0
    /\ tasks' = <<submitted + 1>> \o tasks
    /\ mpc' = "notify"
    /\ UNCHANGED <<exitStatus, fatal, signature, files, submitted, poolUp,
                   nworkers, qmutex, waiters, stop, wpc, wtask, joined,
                   unitVars>>
    /\ UNCHANGED otherRuns

\* submit, lines 80-83: push the unit under queueMutex.
MainSubmit ==
    /\ mpc = "submit"
    /\ submitted < Len(files)
    /\ qmutex = 0
    /\ tasks' = Append(tasks, submitted + 1)
    /\ mpc' = "notify"
    /\ UNCHANGED <<exitStatus, fatal, signature, files, submitted, poolUp,
                   nworkers, qmutex, waiters, stop, wpc, wtask, joined,
                   unitVars>>
    /\ UNCHANGED otherRuns

\* Mutant: submit returns without notifying anyone.
MainNotifyOne_NoWake ==
    /\ mpc = "notify"
    /\ submitted' = submitted + 1
    /\ mpc' = "submit"
    /\ UNCHANGED <<exitStatus, fatal, signature, files, poolUp, nworkers,
                   tasks, qmutex, waiters, stop, wpc, wtask, joined,
                   unitVars>>
    /\ UNCHANGED otherRuns

\* submit, line 84: condition.notify_one() wakes one waiting worker, if any.
MainNotifyOne ==
    /\ mpc = "notify"
    /\ \/ /\ waiters = {}
          /\ UNCHANGED <<waiters, wpc>>
       \/ \E w \in waiters :
             /\ waiters' = waiters \ {w}
             /\ wpc' = [wpc EXCEPT ![w] = "lock"]
    /\ submitted' = submitted + 1
    /\ mpc' = "submit"
    /\ UNCHANGED <<exitStatus, fatal, signature, files, poolUp, nworkers,
                   tasks, qmutex, stop, wtask, joined, unitVars>>
    /\ UNCHANGED otherRuns

\* line 229: the loop of line 211 is over, main starts writing the status
\* line "Scan completed." to stdout.
MainPrintBegin ==
    /\ mpc = "submit"
    /\ submitted = Len(files)
    /\ mpc' = "print"
    /\ UNCHANGED <<exitStatus, fatal, signature, files, submitted, poolVars,
                   unitVars>>
    /\ UNCHANGED otherRuns

\* lines 229-231: the status line is written, std::cin.get() returns and
\* main executes return 0, which destroys pool.
MainPrintEnd ==
    /\ mpc = "print"
    /\ mpc' = "dtor_stop"
    /\ UNCHANGED <<exitStatus, fatal, signature, files, submitted, poolVars,
                   unitVars>>
    /\ UNCHANGED otherRuns

\* ~ThreadPool, line 73: stop = true (queueMutex is not taken).
DtorStop ==
    /\ mpc = "dtor_stop"
    /\ stop' = TRUE
    /\ mpc' = "dtor_notify"
    /\ UNCHANGED <<exitStatus, fatal, signature, files, submitted, poolUp,
                   nworkers, tasks, qmutex, waiters, wpc, wtask, joined,
                   unitVars>>
    /\ UNCHANGED otherRuns

\* ~ThreadPool, line 74: condition.notify_all() wakes every waiting worker.
DtorNotifyAll ==
    /\ mpc = "dtor_notify"
    /\ wpc' = [w \in Workers |-> IF w \in waiters THEN "lock" ELSE wpc[w]]
    /\ waiters' = {}
    /\ mpc' = "dtor_join"
    /\ UNCHANGED <<exitStatus, fatal, signature, files, submitted, poolUp,
                   nworkers, tasks, qmutex, stop, wtask, joined, unitVars>>
    /\ UNCHANGED otherRuns

\* ~ThreadPool, lines 75-76: join the next worker, which has to have
\* returned from workerThread.
DtorJoin ==
    /\ mpc = "dtor_join"
    /\ joined < nworkers
    /\ wpc[joined + 1] = "exited"
    /\ joined' = joined + 1
    /\ UNCHANGED <<mainVars, poolUp, nworkers, tasks, qmutex, waiters, stop,
                   wpc, wtask, unitVars>>
    /\ UNCHANGED otherRuns

\* The destructor returns, and main with status 0.
MainReturn ==
    /\ mpc = "dtor_join"
    /\ joined = nworkers
    /\ mpc' = "done"
    /\ exitStatus' = 0
    /\ UNCHANGED <<fatal, signature, files, submitted, poolVars, unitVars>>
    /\ UNCHANGED otherRuns

(***************************************************************************)
(* workerThread (lines 87-109).                                            *)
(***************************************************************************)
\* Mutant: a lock that excludes nobody.
CanLock_Always(m) == TRUE

\* A lock attempt on a mutex: it can be taken when free.
CanLock(m) == m = 0

\* lines 93-95: the wait predicate, evaluated with the mutex held.
WaitPredicate == stop \/ tasks # <<>>

\* Mutant: the worker returns on stop whatever the queue holds.
WorkerExits_StopOnly == stop

\* line 97: whether the worker returns.
WorkerExits == stop /\ tasks = <<>>

\* Mutant: the worker keeps queueMutex while it runs the unit it took.
TakeOrExit_KeepLock(w) ==
    IF WorkerExits
    THEN /\ qmutex' = 0
         /\ wpc' = [wpc EXCEPT ![w] = "exited"]
         /\ UNCHANGED <<tasks, wtask>>
    ELSE /\ qmutex' = w
         /\ wtask' = [wtask EXCEPT ![w] = Head(tasks)]
         /\ tasks' = Tail(tasks)
         /\ wpc' = [wpc EXCEPT ![w] = "run"]

\* lines 97-101, with queueMutex held and the predicate true: return, or
\* take the front unit; the unique_lock releases the mutex.
TakeOrExit(w) ==
    /\ qmutex' = 0
    /\ IF WorkerExits
       THEN /\ wpc' = [wpc EXCEPT ![w] = "exited"]
            /\ UNCHANGED <<tasks, wtask>>
       ELSE /\ wtask' = [wtask EXCEPT ![w] = Head(tasks)]
            /\ tasks' = Tail(tasks)
            /\ wpc' = [wpc EXCEPT ![w] = "run"]

\* The worker has queueMutex and evaluates the wait predicate.  When it is
\* true, wait returns and lines 97-101 run under the same lock; when it is
\* false the worker, still holding the mutex, is about to block ("wait").
EvaluateAndTake(w) ==
    IF WaitPredicate
    THEN TakeOrExit(w)
    ELSE /\ qmutex' = w
         /\ wpc' = [wpc EXCEPT ![w] = "wait"]
         /\ UNCHANGED <<tasks, wtask>>

\* lines 92-101: std::unique_lock lock(queueMutex), then condition.wait's
\* first evaluation of the predicate; or, inside condition.wait after a
\* wake-up, the mutex is taken again and the predicate evaluated again.
WorkerLock(w) ==
    /\ wpc[w] = "lock"
    /\ CanLock(qmutex)
    /\ EvaluateAndTake(w)
    /\ UNCHANGED <<mainVars, poolUp, nworkers, waiters, stop, joined,
                   unitVars>>
    /\ UNCHANGED otherRuns

\* condition.wait: the predicate was false; the worker releases the mutex
\* and blocks, atomically.
WorkerWait(w) ==
    /\ wpc[w] = "wait"
    /\ qmutex' = 0
    /\ waiters' = waiters \cup {w}
    /\ wpc' = [wpc EXCEPT ![w] = "blocked"]
    /\ UNCHANGED <<mainVars, poolUp, nworkers, tasks, stop, wtask, joined,
                   unitVars>>
    /\ UNCHANGED otherRuns

\* condition.wait may wake without a notification (a spurious wake-up).
\* A worker that has woken, spuriously or notified, takes queueMutex again
\* and evaluates the predicate again: it is where WorkerLock starts.
WorkerSpuriousWake(w) ==
    /\ wpc[w] = "blocked"
    /\ w \in waiters
    /\ waiters' = waiters \ {w}
    /\ wpc' = [wpc EXCEPT ![w] = "lock"]
    /\ UNCHANGED <<mainVars, poolUp, nworkers, tasks, qmutex, stop, wtask,
                   joined, unitVars>>
    /\ UNCHANGED otherRuns

(***************************************************************************)
(* The scan unit (lines 212-225), run by worker w at line 104.             *)
(***************************************************************************)
\* The unit returns to workerThread, which loops.
UnitReturns(w, log) ==
    /\ ulog' = [ulog EXCEPT ![wtask[w]] = [log EXCEPT !.finished = @ + 1]]
    /\ wtask' = [wtask EXCEPT ![w] = 0]
    /\ wpc' = [wpc EXCEPT ![w] = "lock"]

\* Mutant: the classifier's answer is ignored.
Eligible_Always(f) == TRUE

\* line 214: whether the unit goes on to the matcher.
Eligible(f) == isELFFile(f)

BoolStr(b) == IF b THEN "true" ELSE "false"

\* What containsSignatureBuffered returns for each signature main can hold
\* when units run, each file of the traversal and each way the file system
\* can treat the file during the scan.
ScanTable ==
    [sig \in {<<>>, SampleSignature} |->
        [f \in SampleFiles |->
            [io \in MidRunIO |->
                containsSignatureBuffered([f EXCEPT !.io = io], sig)]]]

\* lines 104, 214-216: the unit is called, classifies its file and, when it
\* is eligible, calls the matcher.  The matcher returns, or a std::exception
\* leaves it (std::bad_alloc from the buffer of line 147) for the handler of
\* line 221.
UnitScan(w) ==
    /\ wpc[w] = "run"
    /\ LET u   == wtask[w]
           log == [ulog[u] EXCEPT !.started = @ + 1,
                                  !.elf = BoolStr(isELFFile(files[u]))]
       IN  IF ~Eligible(files[u])
           THEN UnitReturns(w, log)
           ELSE \/ /\ ulog' = [ulog EXCEPT
                                 ![u] = [log EXCEPT !.matcher = "threw"]]
                   /\ wpc' = [wpc EXCEPT ![w] = "c_lock"]
                   /\ UNCHANGED wtask
                \/ \E io \in MidRunIO :
                      LET r  == ScanTable[signature][files[u]][io]
                          lg == [log EXCEPT !.matcher = BoolStr(r),
                                            !.iofail = (io # "ok")]
                      IN  IF r
                          THEN /\ ulog' = [ulog EXCEPT ![u] = lg]
                               /\ wpc' = [wpc EXCEPT ![w] = "o_lock"]
                               /\ UNCHANGED wtask
                          ELSE UnitReturns(w, lg)
    /\ UNCHANGED <<mainVars, poolUp, nworkers, tasks, qmutex, waiters, stop,
                   joined, omutex>>
    /\ UNCHANGED otherRuns

\* lines 217 and 222: std::lock_guard lock(output_mutex); the worker is then
\* inside its write to the sink.
UnitLockOutput(w) ==
    /\ wpc[w] \in {"o_lock", "c_lock"}
    /\ CanLock(omutex)
    /\ omutex' = w
    /\ wpc' = [wpc EXCEPT ![w] = IF wpc[w] = "o_lock" THEN "o_write"
                                                      ELSE "c_write"]
    /\ UNCHANGED <<mainVars, poolUp, nworkers, tasks, qmutex, waiters, stop,
                   wtask, joined, ulog>>
    /\ UNCHANGED otherRuns

\* Mutant: an exception that leaves the unit ends the worker thread.
UnitEscapes_Terminates(w) ==
    /\ wpc[w] = "c_lock"
    /\ wpc' = [wpc EXCEPT ![w] = "exited"]
    /\ UNCHANGED <<mainVars, poolUp, nworkers, tasks, qmutex, waiters, stop,
                   wtask, joined, unitVars>>
    /\ UNCHANGED otherRuns

\* line 222 inside the handler of line 221: the lock of output_mutex throws
\* (std::system_error).  Nothing catches it inside the unit; it leaves
\* task() at line 104 and is caught by catch (...) of lines 105-107, whose
\* body is empty: no record is written and workerThread loops.
UnitEscapes(w) ==
    /\ wpc[w] = "c_lock"
    /\ ulog' = [ulog EXCEPT ![wtask[w]].finished = @ + 1]
    /\ wtask' = [wtask EXCEPT ![w] = 0]
    /\ wpc' = [wpc EXCEPT ![w] = "lock"]
    /\ UNCHANGED <<mainVars, poolUp, nworkers, tasks, qmutex, waiters, stop,
                   joined, omutex>>
    /\ UNCHANGED otherRuns

\* lines 218-219 and 223-224: the record is written (infected to stdout,
\* error to stderr), the guard releases output_mutex, the unit returns.
UnitWrite(w) ==
    /\ wpc[w] \in {"o_write", "c_write"}
    /\ LET log == IF wpc[w] = "o_write"
                  THEN [ulog[wtask[w]] EXCEPT !.infected = @ + 1]
                  ELSE [ulog[wtask[w]] EXCEPT !.errors = @ + 1]
       IN  UnitReturns(w, log)
    /\ omutex' = 0
    /\ UNCHANGED <<mainVars, poolUp, nworkers, tasks, qmutex, waiters, stop,
                   joined>>
    /\ UNCHANGED otherRuns

Next ==
    \/ MainArgs \/ MainLoad \/ MainTraverse \/ MainMakePool
    \/ MainSubmit \/ MainNotifyOne \/ MainPrintBegin \/ MainPrintEnd
    \/ DtorStop \/ DtorNotifyAll \/ DtorJoin \/ MainReturn
    \/ \E w \in Workers : WorkerLock(w)
    \/ \E w \in Workers : WorkerWait(w)
    \/ \E w \in Workers : WorkerSpuriousWake(w)
    \/ \E w \in Workers : UnitScan(w)
    \/ \E w \in Workers : UnitLockOutput(w)
    \/ \E w \in Workers : UnitEscapes(w)
    \/ \E w \in Workers : UnitWrite(w)

Spec == Init /\ [][Next]_vars

(***************************************************************************)
(* Claims about the matcher.                                               *)
(***************************************************************************)
\* S occurs in B at some offset k.
OccursAt(S, B, k) == k + Len(S) <= Len(B) /\ SubSeq(B, k + 1, k + Len(S)) = S
Occurs(S, B) == \E k \in 0..Len(B) : OccursAt(S, B, k)

\* C1: no false negative.  When the file opens and its reads succeed, a
\* non-empty signature that occurs in the file at any offset makes
\* containsSignatureBuffered return true.
C1_NoFalseNegative ==
    (/\ ms.pc = "ret"
     /\ Len(msig) > 0
     /\ mfile.io = "ok"
     /\ Occurs(msig, mfile.bytes)) => ms.ret = TRUE

\* A run that returned true on a file whose only occurrence of the signature
\* straddles the boundary between the first and the second chunk.
C1_Witness ==
    /\ ms.pc = "ret"
    /\ ms.ret = TRUE
    /\ mfile.io = "ok"
    /\ Len(msig) >= 2
    /\ ms.reads = 2
    /\ Occurs(msig, mfile.bytes)
    /\ \A k \in 0..Len(mfile.bytes) :
          OccursAt(msig, mfile.bytes, k) =>
              k < BufferSizeOf(msig) /\ BufferSizeOf(msig) < k + Len(msig)

\* C2: no false positive.  A non-empty signature that does not occur in the
\* file makes containsSignatureBuffered return false.
C2_NoFalsePositive ==
    (/\ ms.pc = "ret"
     /\ Len(msig) > 0
     /\ ~Occurs(msig, mfile.bytes)) => ms.ret = FALSE

(***************************************************************************)
(* Claims about the classifier.                                            *)
(***************************************************************************)
ELF_MAGIC == <<127, 69, 76, 70>>

\* C7: isELFFile returns true exactly when the file has at least 4 readable
\* bytes and its first 4 bytes are 0x7F 'E' 'L' 'F'.
C7_ClassifierIff ==
    cpc = "ret" =>
        (cret <=> (/\ cfile.io = "ok"
                   /\ Len(cfile.bytes) >= 4
                   /\ SubSeq(cfile.bytes, 1, 4) = ELF_MAGIC))

\* isELFFile has returned true on a readable file of 5 bytes that starts
\* with the magic.
C7_Witness ==
    /\ cpc = "ret"
    /\ cfile.io = "ok"
    /\ cfile.bytes = ELF_MAGIC \o <<255>>
    /\ cret = TRUE

(***************************************************************************)
(* Claims about the program.                                               *)
(***************************************************************************)
InWrite(w) == wpc[w] \in {"o_write", "c_write"}

\* C3: with at least one worker, when the destructor has returned every
\* submitted unit has been executed exactly once; at no time is a unit
\* started twice or held by two workers, and a worker has returned only
\* with stop set and the queue empty.
C3_ExactlyOnce ==
    /\ \A u \in Units :
          /\ ulog[u].started <= 1
          /\ \A w1, w2 \in Workers :
                wtask[w1] = u /\ wtask[w2] = u => w1 = w2
    /\ \A w \in Workers : wpc[w] = "exited" => stop /\ tasks = <<>>
    /\ (mpc = "done" /\ poolUp /\ nworkers >= 1) =>
          /\ tasks = <<>>
          /\ \A u \in Units : ulog[u].started = 1 /\ ulog[u].finished = 1

\* The destructor has returned in a run of two workers and two units.
C3_Witness ==
    /\ mpc = "done"
    /\ nworkers = 2
    /\ Len(files) = 2
    /\ submitted = 2
    /\ \A u \in Units : ulog[u].finished = 1

\* The steps of the program that the scheduler is bound to take: every
\* step but a spurious wake-up, which condition.wait may but need not make.
ProgressNext ==
    \/ MainArgs \/ MainLoad \/ MainTraverse \/ MainMakePool
    \/ MainSubmit \/ MainNotifyOne \/ MainPrintBegin \/ MainPrintEnd
    \/ DtorStop \/ DtorNotifyAll \/ DtorJoin \/ MainReturn
    \/ \E w \in Workers :
          \/ WorkerLock(w) \/ WorkerWait(w)
          \/ UnitScan(w) \/ UnitLockOutput(w) \/ UnitEscapes(w)
          \/ UnitWrite(w)

\* C4: shutdown terminates.  Once the destructor has set stop and called
\* notify_all, the program is never stuck before the joins have returned:
\* some thread can always take a step.
C4_ShutdownTerminates ==
    mpc = "dtor_join" => ENABLED ProgressNext

\* C5: a unit whose file could not be opened or read by its scan has
\* emitted exactly one error record by the time it returns.
C5_IOFailureReported ==
    \A u \in Units :
        (ulog[u].finished = 1 /\ ulog[u].iofail) => ulog[u].errors = 1

\* C6: a file the classifier finds ineligible is never passed to the matcher
\* and gets no infected record; an infected record is written only after
\* isELFFile and containsSignatureBuffered both returned true for the file;
\* a unit emits at most one record.
C6_EligibilityGates ==
    \A u \in Units :
        /\ ulog[u].infected + ulog[u].errors <= 1
        /\ ulog[u].elf = "false" =>
              ulog[u].matcher = "none" /\ ulog[u].infected = 0
        /\ (\/ ulog[u].infected > 0
            \/ \E w \in Workers : wtask[w] = u /\ wpc[w] = "o_write") =>
              ulog[u].elf = "true" /\ ulog[u].matcher = "true"

\* The unit of a non-ELF file whose whole content is the signature has
\* returned without a record.
C6_Witness ==
    \E u \in Units :
        /\ files[u].bytes = signature
        /\ ulog[u].finished = 1
        /\ ulog[u].elf = "false"
        /\ ulog[u].infected = 0

\* C8: a fatal pre-scan error (signature empty or unreadable, traversal
\* failing) ends main with a non-zero status before the pool exists, with
\* no unit submitted or run; the pool is never built with an empty
\* signature, and an empty signature matches no file.
C8_FatalBeforeScan ==
    /\ fatal # "none" =>
          /\ mpc = "done"
          /\ exitStatus # 0
          /\ ~poolUp
          /\ submitted = 0
          /\ tasks = <<>>
          /\ \A u \in Units : ulog[u].started = 0
    /\ poolUp => Len(signature) > 0
    /\ \A f \in SampleFiles : ~containsSignatureBuffered(f, <<>>)

\* main has returned on a traversal error, after the signature was loaded.
C8_Witness ==
    /\ mpc = "done"
    /\ fatal = "traversal"
    /\ Len(signature) > 0

\* C9: at no time are two workers both inside a sink write.
C9_SinkExclusive ==
    \A w1, w2 \in Workers : InWrite(w1) /\ InWrite(w2) => w1 = w2

\* One worker is inside its write while another waits for output_mutex.
C9_Witness ==
    \E w1, w2 \in Workers :
        /\ wpc[w1] = "o_write"
        /\ wpc[w2] \in {"o_lock", "c_lock"}

\* C10: the pool built in main has at least one worker.
C10_AtLeastOneWorker ==
    poolUp => nworkers >= 1

\* main is at or past the write of "Scan completed." (line 229).
StatusLineReached ==
    poolUp /\ mpc \in {"print", "dtor_stop", "dtor_notify", "dtor_join",
                       "done"}

\* C11: the status line "Scan completed." is written only after every
\* submitted unit has finished: in a pool of at least one worker, while main
\* writes it, and ever after, every unit has returned and no worker is
\* inside a sink write.
C11_StatusLineLast ==
    (StatusLineReached /\ nworkers >= 1) =>
        /\ \A u \in Units : ulog[u].finished = 1
        /\ \A w \in Workers : ~InWrite(w)

(***************************************************************************)
(* Scheduling.  Every thread that can take a step is eventually run: main  *)
(* and each worker are weakly fair.  A spurious wake-up is something       *)
(* condition.wait may do, never something it is bound to do.               *)
(***************************************************************************)
MainProgress ==
    \/ MainArgs \/ MainLoad \/ MainTraverse \/ MainMakePool
    \/ MainSubmit \/ MainNotifyOne \/ MainPrintBegin \/ MainPrintEnd
    \/ DtorStop \/ DtorNotifyAll \/ DtorJoin \/ MainReturn

WorkerProgress(w) ==
    /\ w \in Workers
    /\ \/ WorkerLock(w) \/ WorkerWait(w)
       \/ UnitScan(w) \/ UnitLockOutput(w) \/ UnitEscapes(w)
       \/ UnitWrite(w)

FairSpec ==
    /\ Init /\ [][Next]_vars
    /\ WF_vars(MainProgress)
    /\ \A w \in 1..MaxHW : WF_vars(WorkerProgress(w))

InQueue(u) == \E i \in 1..Len(tasks) : tasks[i] = u

\* A worker that is not about to evaluate the wait predicate again on its
\* own: it has found the predicate false and is blocking, or is blocked.
Asleep(w) == wpc[w] \in {"wait", "blocked"}

\* main is between submit's push and its notify_one.
NotifyPending == mpc = "notify"

\* No unit is in the queue while every worker sleeps and no notification is
\* on its way.
NoLostWakeup ==
    (/\ nworkers >= 1
     /\ ~stop
     /\ tasks # <<>>
     /\ ~NotifyPending) => \E w \in Workers : ~Asleep(w)

\* C12: no lost wake-up on submit.  With at least one worker and stop not
\* set, a non-empty queue never coexists with workers that all sleep unless
\* submit's notify_one is still to come; and under fair scheduling every
\* unit in the queue of a pool with a worker is eventually dequeued.
C12_NoLostWakeup ==
    /\ []NoLostWakeup
    /\ \A u \in 1..MaxFiles : (nworkers >= 1 /\ InQueue(u)) ~> ~InQueue(u)

\* submit has pushed a unit while every worker is blocked in condition.wait
\* and has still to call notify_one.
C12_Witness ==
    /\ nworkers = 2
    /\ ~stop
    /\ tasks # <<>>
    /\ NotifyPending
    /\ \A w \in Workers : wpc[w] = "blocked"

\* C13: no outcome is lost.  A unit in which an exception was thrown has,
\* by the time it has ended, emitted exactly one error record.
C13_NoOutcomeLost ==
    \A u \in Units :
        (ulog[u].matcher = "threw" /\ ulog[u].finished = 1) =>
            ulog[u].errors = 1

\* A step in which the unit run by worker w ends.
UnitEnds(w) ==
    /\ wtask[w] # 0
    /\ ulog'[wtask[w]].finished = ulog[wtask[w]].finished + 1

\* C14: failure isolation.  A worker that ends a unit in which an exception
\* was thrown is back at the lock of the wait/dequeue loop; a worker leaves
\* workerThread only from that loop, never from inside a unit; and when the
\* destructor has returned in a pool with a worker, every unit has been
\* executed, whatever was thrown in the others.
C14_FailureIsolation ==
    /\ [][\A w \in Workers :
            /\ (UnitEnds(w) /\ ulog[wtask[w]].matcher = "threw") =>
                  wpc'[w] = "lock"
            /\ (wpc[w] # "exited" /\ wpc'[w] = "exited") =>
                  wpc[w] = "lock" /\ wtask[w] = 0]_vars
    /\ [](\A u \in Units :
            (mpc = "done" /\ nworkers >= 1 /\ ulog[u].matcher = "threw") =>
                \A v \in Units : ulog[v].finished = 1)

\* A pool of one worker has run two units after the first one threw and its
\* exception was discarded by the worker: the same worker ran the second.
C14_Witness ==
    /\ mpc = "done"
    /\ nworkers = 1
    /\ Len(files) = 2
    /\ ulog[1].matcher = "threw"
    /\ ulog[1].errors = 0
    /\ ulog[1].finished = 1
    /\ ulog[2].finished = 1

\* Worker w is executing a unit (it is inside task() of line 104).
InUnit(w) == wpc[w] \in {"run", "o_lock", "o_write", "c_lock", "c_write"}

\* C15: units run outside the queue lock.  No worker holds queueMutex while
\* it executes a unit: a worker holds it across states only between a false
\* wait predicate and its blocking, so while every worker is inside a unit
\* queueMutex is free for submit.
C15_UnitsOutsideLock ==
    /\ \A w \in Workers : InUnit(w) => qmutex # w /\ wtask[w] # 0
    /\ \A w \in Workers : qmutex = w => wpc[w] = "wait"
    /\ (\A w \in Workers : InUnit(w)) => qmutex = 0

\* Two workers execute two different units at the same time, as many units
\* as the pool has workers.
C15_Witness ==
    /\ nworkers = 2
    /\ \A w \in Workers : wpc[w] = "run"
    /\ wtask[1] # wtask[2]
    /\ qmutex = 0

\* Unit u has been claimed: a worker has taken it from the queue.  Units are
\* numbered in the order in which main submits them.
Claimed(u) == ulog[u].started >= 1 \/ \E w \in Workers : wtask[w] = u

\* C20: the task queue is FIFO.  The queue holds units in the order of their
\* submission, a unit is claimed only when every unit submitted before it
\* has been claimed, and a claiming step takes the front of the queue.
C20_Fifo ==
    /\ [](\A i, j \in 1..Len(tasks) : i < j => tasks[i] < tasks[j])
    /\ [](\A u, v \in Units : (u < v /\ Claimed(v)) => Claimed(u))
    /\ [][\A w \in Workers :
            (wtask[w] = 0 /\ wtask'[w] # 0) =>
                /\ wtask'[w] = Head(tasks)
                /\ tasks' = Tail(tasks)]_vars

\* In a pool of two workers the first of two submitted units has been
\* claimed and is running while the second is still in the queue.
C20_Witness ==
    /\ nworkers = 2
    /\ submitted = 2
    /\ tasks = <<2>>
    /\ \E w \in Workers : wtask[w] = 1 /\ wpc[w] = "run"
    /\ ulog[2].started = 0

(***************************************************************************)
(* Claims about the matcher's window and buffer.                           *)
(***************************************************************************)
\* The window searched by the last iteration: buffer[0 .. totalBytes).
Window == SubSeq(ms.buffer, 1, ms.total)

\* file[from .. to), 0-based offsets.
FileSegment(from, to) == SubSeq(mfile.bytes, from + 1, to)

\* C16: on the first iteration there is no carry-over: the window searched
\* is the bytes read from the file, from file byte 0, and nothing else.
C16_FirstWindow ==
    ms.reads = 1 => Window = FileSegment(0, ms.bytesRead)

\* C17: carry-over invariant.  After every iteration but the first, with r
\* bytes freshly read and p bytes consumed before it, the searched window
\* buffer[0 .. r + overlap) is file[p - overlap .. p + r).
C17_CarryOver ==
    ms.reads >= 2 =>
        LET r == ms.bytesRead
            p == ms.pos - r
        IN  /\ ms.total = r + OverlapOf(msig)
            /\ p >= OverlapOf(msig)
            /\ Window = FileSegment(p - OverlapOf(msig), p + r)

\* A third iteration has run with a carry-over of one byte and a fresh
\* read of one byte, on a file of two chunks and one byte.
C17_Witness ==
    /\ ms.reads = 3
    /\ Len(msig) = 2
    /\ ms.bytesRead = 1
    /\ ms.pos = Len(mfile.bytes)
    /\ ms.pc = "ret"

\* The chunk size C of the run.
ChunkSize == BufferSizeOf(msig)

\* C18: the matcher loop terminates.  The number of reads never exceeds
\* floor(len(B) / C) + 1; a read is made only when every read before it was
\* full and the window before it did not contain the signature; once a
\* window contains the signature, or a read was short, the function has
\* returned, with true in the first case; a run that has not returned can
\* take a step, a step that stays in the loop has made one more read, and a
\* run that has returned stays as it is.
C18_Terminates ==
    /\ [](ms.reads <= (Len(mfile.bytes) \div ChunkSize) + 1)
    /\ []((ms.reads >= 1 /\ StdSearch(ms.buffer, ms.total, msig) # ms.total)
            => ms.pc = "ret" /\ ms.ret = TRUE)
    /\ []((ms.reads >= 1 /\ ms.bytesRead < ChunkSize) => ms.pc = "ret")
    /\ [][ms'.reads # ms.reads =>
            /\ ms'.reads = ms.reads + 1
            /\ ms.reads >= 1 =>
                  /\ ms.bytesRead = ChunkSize
                  /\ StdSearch(ms.buffer, ms.total, msig) = ms.total]_vars
    /\ [][(ms.pc = "loop" /\ ms'.pc = "loop") =>
            ms'.reads = ms.reads + 1]_vars
    /\ [](ms.pc # "ret" => ENABLED MatcherNext)
    /\ [][ms.pc = "ret" => ms' = ms]_vars

\* The matcher has returned true at the first of the two chunks of a file,
\* without reading the second.
C18_Witness ==
    /\ ms.pc = "ret"
    /\ ms.ret = TRUE
    /\ ms.reads = 1
    /\ mfile.io = "ok"
    /\ Len(mfile.bytes) > ChunkSize

\* The iteration that the run is about to make: the loop test of line 150
\* will succeed.
AboutToIterate == ms.pc = "loop" /\ ms.good

\* [from, to) lies inside buffer[0 .. C + overlap).
InBuffer(from, to) ==
    /\ 0 <= from
    /\ from <= to
    /\ to <= Len(ms.buffer)
    /\ Len(ms.buffer) = ChunkSize + OverlapOf(msig)

\* C19: buffer accesses stay in bounds.  For the iteration about to be made:
\* the branch of lines 153-155 is not the one taken; the copy of line 152,
\* when it is made, reads buffer[len - overlap .. len) and writes
\* buffer[0 .. overlap), both inside the buffer and disjoint; the read
\* writes buffer[overlap .. overlap + C), inside the buffer.  For the
\* iteration that was made: the search covered buffer[0 .. totalBytes),
\* inside the buffer.
C19_InBounds ==
    LET overlap == OverlapOf(msig)
        len     == Len(ms.buffer)
    IN  /\ AboutToIterate =>
              /\ ~(ms.bytesRead < overlap /\ ms.bytesRead > 0)
              /\ ms.bytesRead >= overlap =>
                    /\ InBuffer(len - overlap, len)
                    /\ InBuffer(0, overlap)
                    /\ overlap <= len - overlap
              /\ InBuffer(overlap, overlap + ChunkSize)
        /\ ms.reads >= 1 => InBuffer(0, ms.total)

\* The run is about to make its second iteration, with a carry-over of
\* MaxSigLen - 1 bytes to copy.
C19_Witness ==
    /\ AboutToIterate
    /\ ms.reads = 1
    /\ Len(msig) = MaxSigLen
    /\ ms.bytesRead >= OverlapOf(msig)

=============================================================================
